---------------------------- MODULE Spec2Model ----------------------------
(***************************************************************************)
(* Erasure coding: a model of                                              *)
(*   src/erasure_coding_demo/erasure_coding_demo.py  ErasureCodingRecovery *)
(*       (k-of-n Reed-Solomon coding through the zfec library, padding,    *)
(*        SHA-256 verification) and its demonstration harness,             *)
(*   src/erasure_coding_file.py                      SimpleErasureCode     *)
(*       (XOR parity with metadata) and its file pipeline,                 *)
(*   src/erasure_coding_simple.py                    SimpleErasureCode     *)
(*       (XOR parity without metadata) and its demonstration.              *)
(*                                                                         *)
(* Bytes are the integers 0..255, byte strings are sequences of bytes      *)
(* (1-indexed, so Python's b[i] is b[i+1] here), Python's None is the      *)
(* empty option <<>> and a present value x is the option <<x>>.            *)
(***************************************************************************)
EXTENDS Integers, Sequences, FiniteSets

(***************************************************************************)
(* Bounds of the model.                                                    *)
(***************************************************************************)
MaxK == 2
MaxN == 4
MaxLen == 3

\* the largest number of parts a file is split into
MaxParts == 2

\* the number of encode results the client keeps
MaxCalls == 2

\* the byte values the inputs are drawn from (zero, so that inputs may end
\* in zero bytes, and a non-zero byte)
ByteVals == {0, 167}

\* the bit positions a tampering flips
TamperBits == 0..7

(***************************************************************************)
(* Python helpers: options, slices, join.                                  *)
(***************************************************************************)
None == <<>>

Some(x) == <<x>>

IsNone(o) == o = <<>>

Val(o) == o[1]

Min(a, b) == IF a < b THEN a ELSE b

\* a // b of Python (the floor of the quotient), b # 0
FloorDiv(a, b) == IF b > 0 THEN a \div b ELSE (0 - a) \div (0 - b)

\* b'\x00' * cnt
Zeros(cnt) == [i \in 1..cnt |-> 0]

\* s[start:end] for 0 <= start, 0 <= end (Python clamps both to len(s))
Slice(s, start, end) ==
    LET e == Min(end, Len(s))
    IN  IF start >= e THEN <<>> ELSE [i \in 1..(e - start) |-> s[start + i]]

RECURSIVE Join(_)
\* b''.join(chunks)
Join(chunks) ==
    IF chunks = <<>> THEN <<>> ELSE Head(chunks) \o Join(Tail(chunks))

\* the elements of a sequence
Range(s) == {s[i] : i \in 1..Len(s)}

\* all byte strings of length 0..maxlen over ByteVals
BytesUpTo(maxlen) == UNION {[1..l -> ByteVals] : l \in 0..maxlen}

(***************************************************************************)
(* GF(2^8) as zfec builds it (fec.c: generate_gf, primitive polynomial     *)
(* Pp = "101110001", i.e. 1 + x^2 + x^3 + x^4 + x^8): gf_exp, gf_log and   *)
(* inverse tables, multiplication through the tables.                      *)
(***************************************************************************)
RECURSIVE BitXor(_, _)
\* a ^ b on naturals
BitXor(a, b) ==
    IF a = 0 THEN b
    ELSE IF b = 0 THEN a
    ELSE (((a % 2) + (b % 2)) % 2) + 2 * BitXor(a \div 2, b \div 2)

\* alpha * p, alpha = 2: a shift, reduced by the polynomial (29 = 1 + 4 + 8
\* + 16) when bit 7 was set
gf_times_alpha(p) == IF p >= 128 THEN BitXor(29, (p - 128) * 2) ELSE p * 2

RECURSIVE gf_exp_fill(_, _)
\* the table of alpha^0 .. alpha^(upto-1), filled one entry after the other
gf_exp_fill(t, upto) ==
    IF Len(t) >= upto THEN t
    ELSE gf_exp_fill(Append(t, gf_times_alpha(t[Len(t)])), upto)

gf_exp_32 == gf_exp_fill(<<1>>, 32)

gf_exp_64 == gf_exp_fill(gf_exp_32, 64)

gf_exp_96 == gf_exp_fill(gf_exp_64, 96)

gf_exp_128 == gf_exp_fill(gf_exp_96, 128)

gf_exp_160 == gf_exp_fill(gf_exp_128, 160)

gf_exp_192 == gf_exp_fill(gf_exp_160, 192)

gf_exp_224 == gf_exp_fill(gf_exp_192, 224)

gf_exp_table == gf_exp_fill(gf_exp_224, 255)

\* gf_exp[i] = alpha^i
gf_exp == [i \in 0..254 |-> gf_exp_table[i + 1]]

gf_log == [x \in 1..255 |-> CHOOSE i \in 0..254 : gf_exp[i] = x]

modnn(x) == x % 255

gf_mul(a, b) ==
    IF a = 0 \/ b = 0 THEN 0 ELSE gf_exp[modnn(gf_log[a] + gf_log[b])]

gf_inverse(a) == gf_exp[modnn(255 - gf_log[a])]

(***************************************************************************)
(* Matrices over GF(2^8): sequences of rows.                               *)
(***************************************************************************)
RECURSIVE XorAll(_)
\* the field sum (XOR) of a sequence of bytes
XorAll(s) == IF s = <<>> THEN 0 ELSE BitXor(Head(s), XorAll(Tail(s)))

Identity(k) == [r \in 1..k |-> [c \in 1..k |-> IF r = c THEN 1 ELSE 0]]

RowScale(row, f) == [c \in DOMAIN row |-> gf_mul(row[c], f)]

RowAddMul(row, piv, f) ==
    [c \in DOMAIN row |-> BitXor(row[c], gf_mul(piv[c], f))]

SwapRows(A, r1, r2) ==
    [r \in DOMAIN A |-> IF r = r1 THEN A[r2] ELSE IF r = r2 THEN A[r1] ELSE A[r]]

RECURSIVE GaussJordan(_, _, _, _)
\* Gauss-Jordan elimination of [A | B] from column c on; None when a column
\* has no pivot (the matrix is singular)
GaussJordan(A, B, c, k) ==
    IF c > k THEN Some(B)
    ELSE LET cand == {r \in c..k : A[r][c] # 0}
         IN  IF cand = {} THEN None
             ELSE LET p   == CHOOSE r \in cand : \A q \in cand : r <= q
                      A1  == SwapRows(A, c, p)
                      B1  == SwapRows(B, c, p)
                      f   == gf_inverse(A1[c][c])
                      prA == RowScale(A1[c], f)
                      prB == RowScale(B1[c], f)
                      A2  == [r \in 1..k |-> IF r = c THEN prA
                                             ELSE RowAddMul(A1[r], prA, A1[r][c])]
                      B2  == [r \in 1..k |-> IF r = c THEN prB
                                             ELSE RowAddMul(B1[r], prB, A1[r][c])]
                  IN  GaussJordan(A2, B2, c + 1, k)

\* the inverse of the k x k matrix A, as an option
invert_mat(A, k) == GaussJordan(A, Identity(k), 1, k)

\* the product of A (p x q) and B (q x r)
matmul(A, B, p, q, r) ==
    [i \in 1..p |-> [j \in 1..r |->
        XorAll([c \in 1..q |-> gf_mul(A[i][c], B[c][j])])]]

(***************************************************************************)
(* zfec: the encoding matrix of fec_new(k, n), Encoder.encode and          *)
(* Decoder.decode.                                                         *)
(***************************************************************************)
\* the n x k Vandermonde matrix: row 0 is (1, 0, ..., 0), row r >= 1 is
\* (alpha^((r-1)*col)) for col = 0..k-1
vdm(k, n) ==
    [r \in 1..n |-> [c \in 1..k |->
        IF r = 1 THEN (IF c = 1 THEN 1 ELSE 0)
        ELSE gf_exp[modnn((r - 2) * (c - 1))]]]

\* the systematic matrix: identity on top, the lower n-k Vandermonde rows
\* times the inverse of the top k x k Vandermonde matrix below
fec_new(k, n) ==
    LET tmp_m == vdm(k, n)
        top   == [r \in 1..k |-> tmp_m[r]]
        inv   == Val(invert_mat(top, k))
        low   == matmul([r \in 1..(n - k) |-> tmp_m[k + r]], inv, n - k, k, k)
    IN  [r \in 1..n |-> IF r <= k THEN Identity(k)[r] ELSE low[r - k]]

\* the matrices of every (k, n) of the model, built once
enc_matrix == [k \in 1..MaxK |-> [n \in k..MaxN |-> fec_new(k, n)]]

\* Encoder.encode(blocks): all n shares of the k blocks of sz bytes; share i
\* is row i of the matrix times the blocks, byte offset by byte offset
zfec_encode(k, n, blocks) ==
    LET sz  == Len(blocks[1])
        mat == enc_matrix[k][n]
    IN  [i \in 1..n |-> [j \in 1..sz |->
            XorAll([c \in 1..k |-> gf_mul(mat[i][c], blocks[c][j])])]]

\* The position of each share after Decoder.decode has moved the primary
\* shares (sharenum < k) to their own position: pos[i] is the place in the
\* k-slot array of the i-th presented share.
zfec_positions(k, sharenums) ==
    LET prim   == {i \in 1..k : sharenums[i] < k}
        taken  == {sharenums[i] + 1 : i \in prim}
        free   == (1..k) \ taken
        second == (1..k) \ prim
        \* the secondary shares fill the free slots in order
        rank(S, x) == Cardinality({y \in S : y < x})
    IN  [i \in 1..k |->
            IF i \in prim THEN sharenums[i] + 1
            ELSE CHOOSE s \in free : rank(free, s) = rank(second, i)]

\* Decoder.decode(shares, sharenums): the k primary blocks as an option, None
\* when zfec raises (not exactly k shares and k share numbers, or a singular
\* decoding matrix)
zfec_decode(k, n, shares, sharenums) ==
    IF Len(shares) # k \/ Len(sharenums) # k THEN None
    ELSE
    LET sz    == Len(shares[1])
        mat   == enc_matrix[k][n]
        pos   == zfec_positions(k, sharenums)
        at(s) == CHOOSE i \in 1..k : pos[i] = s
        inp   == [s \in 1..k |-> shares[at(s)]]
        m_dec == [s \in 1..k |-> mat[sharenums[at(s)] + 1]]
        inv   == invert_mat(m_dec, k)
    IN  IF IsNone(inv) THEN None
        ELSE Some([s \in 1..k |-> [j \in 1..sz |->
                XorAll([c \in 1..k |-> gf_mul(Val(inv)[s][c], inp[c][j])])]])

(***************************************************************************)
(* hashlib.sha256(data).hexdigest(): SHA-256 is taken as collision free,   *)
(* so two digests are equal exactly when the hashed byte strings are; the  *)
(* digest is a value of its own kind, never a byte string.                 *)
(***************************************************************************)
sha256_hexdigest(data) == [alg |-> "sha256", len |-> Len(data), of |-> data]

(***************************************************************************)
(* ErasureCodingRecovery (erasure_coding_demo.py).                         *)
(***************************************************************************)
\* __init__(k, n, chunk_size): the fields of a new instance; encoder and
\* decoder are the zfec objects of (k, n)
ECR_init(k, n, chunk_size) ==
    [k |-> k, n |-> n, m |-> n - k, chunk_size |-> chunk_size,
     encoder |-> [k |-> k, n |-> n], decoder |-> [k |-> k, n |-> n]]

\* a slip: the outer "% self.k" left out
ECR_padding_needed_no_mod(self, data_len) == self.k - (data_len % self.k)

\* padding_needed = (self.k - (data_len % self.k)) % self.k
ECR_padding_needed(self, data_len) == (self.k - (data_len % self.k)) % self.k

\* padded_data = data + b'\x00' * padding_needed
ECR_padded_data(self, data) ==
    data \o Zeros(ECR_padding_needed(self, Len(data)))

\* the k equal-sized blocks of the padded data
ECR_blocks(self, data) ==
    LET padded_data == ECR_padded_data(self, data)
        block_size  == Len(padded_data) \div self.k
    IN  [i \in 1..self.k |->
            Slice(padded_data, (i - 1) * block_size,
                  (i - 1) * block_size + block_size)]

\* a slip: the metadata reports the configured chunk_size as the block size
ECR_encode_chunk_size(self, data) ==
    LET data_len == Len(data)
    IN  [shards   |-> zfec_encode(self.encoder.k, self.encoder.n,
                                  ECR_blocks(self, data)),
         metadata |-> [original_length |-> data_len,
                       padding         |-> ECR_padding_needed(self, data_len),
                       block_size      |-> self.chunk_size,
                       hash            |-> sha256_hexdigest(data)]]

\* encode(data): (shards, metadata)
ECR_encode(self, data) ==
    LET data_len       == Len(data)
        padding_needed == ECR_padding_needed(self, data_len)
        padded_data    == ECR_padded_data(self, data)
        block_size     == Len(padded_data) \div self.k
        blocks         == ECR_blocks(self, data)
    IN  [shards   |-> zfec_encode(self.encoder.k, self.encoder.n, blocks),
         metadata |-> [original_length |-> data_len,
                       padding         |-> padding_needed,
                       block_size      |-> block_size,
                       hash            |-> sha256_hexdigest(data)]]

\* the outcomes of decode: the bytes returned, or the error raised; `used`
\* is the index list handed to zfec (empty when zfec was not called) and
\* `hashed` tells whether the digest was recomputed and compared
Returned(data, used) ==
    [status |-> "ok", data |-> data, used |-> used, hashed |-> TRUE]

Raised(error, used, hashed) ==
    [status |-> error, data |-> <<>>, used |-> used, hashed |-> hashed]

ErrShardCount == "ValueError: Expected n shards"

ErrInsufficient == "ValueError: Need at least k shards to recover"

ErrSha256 == "ValueError: SHA-256 mismatch"

ErrZfec == "zfec.Error"

\* the indices i (0-based, ascending) of the slots with shard is not None
ECR_present_indices(shards) ==
    LET P == {i \in 0..(Len(shards) - 1) : ~IsNone(shards[i + 1])}
        nth(r) == CHOOSE i \in P : Cardinality({x \in P : x < i}) = r - 1
    IN  [r \in 1..Cardinality(P) |-> nth(r)]

\* a slip: the shards are numbered by their place among the present ones
ECR_valid_indices_renumbered(self, shards) ==
    LET all == ECR_present_indices(shards)
    IN  [r \in 1..Min(Len(all), self.k) |-> r - 1]

\* a slip: the last k of the present ones are selected
ECR_valid_indices_last(self, shards) ==
    LET all == ECR_present_indices(shards)
    IN  IF Len(all) > self.k THEN SubSeq(all, Len(all) - self.k + 1, Len(all))
        ELSE all

\* valid_indices as handed to zfec: the first k of the present ones
ECR_valid_indices(self, shards) ==
    LET all == ECR_present_indices(shards)
    IN  IF Len(all) > self.k THEN SubSeq(all, 1, self.k) ELSE all

\* a slip: recovered_data[:-padding] without the "padding > 0" test, and
\* data[:-0] is empty
ECR_remove_padding_always(recovered_data, padding) ==
    IF padding = 0 \/ padding >= Len(recovered_data) THEN <<>>
    ELSE SubSeq(recovered_data, 1, Len(recovered_data) - padding)

\* recovered_data[:-padding] when padding > 0
ECR_remove_padding(recovered_data, padding) ==
    IF padding > 0
    THEN (IF padding >= Len(recovered_data) THEN <<>>
          ELSE SubSeq(recovered_data, 1, Len(recovered_data) - padding))
    ELSE recovered_data

\* a slip: the count is compared with the number of parity shards
ECR_too_few_m(self, valid_shards_len) == valid_shards_len < self.m

\* len(valid_shards) < self.k
ECR_too_few(self, valid_shards_len) == valid_shards_len < self.k

\* a slip: only the length of the recovered data is compared
ECR_hash_mismatch_len(recovered_data, metadata) ==
    Len(recovered_data) # metadata.original_length

\* recovered_hash != metadata['hash']
ECR_hash_mismatch(recovered_data, metadata) ==
    sha256_hexdigest(recovered_data) # metadata.hash

\* decode(shards, metadata)
ECR_decode(self, shards, metadata) ==
    IF Len(shards) # self.n THEN Raised(ErrShardCount, <<>>, FALSE)
    ELSE IF ECR_too_few(self, Len(ECR_present_indices(shards)))
         THEN Raised(ErrInsufficient, <<>>, FALSE)
    ELSE LET valid_indices  == ECR_valid_indices(self, shards)
             valid_shards   == [r \in 1..Len(valid_indices) |->
                                   Val(shards[valid_indices[r] + 1])]
             decoded_blocks == zfec_decode(self.decoder.k, self.decoder.n,
                                           valid_shards, valid_indices)
         IN  IF IsNone(decoded_blocks) THEN Raised(ErrZfec, valid_indices, FALSE)
             ELSE LET recovered_data ==
                          ECR_remove_padding(Join(Val(decoded_blocks)),
                                             metadata.padding)
                  IN  IF ECR_hash_mismatch(recovered_data, metadata)
                      THEN Raised(ErrSha256, valid_indices, TRUE)
                      ELSE Returned(recovered_data, valid_indices)

(***************************************************************************)
(* SimpleErasureCode (erasure_coding_file.py): XOR parity with metadata.   *)
(***************************************************************************)
\* __init__(k, m)
SEC_init(k, m) == [k |-> k, m |-> m]

\* a slip: the ceiling taken as floor + 1
SEC_chunk_size_floor_plus_one(self, original_length) ==
    (original_length \div self.k) + 1

\* chunk_size = (original_length + self.k - 1) // self.k
SEC_chunk_size(self, original_length) ==
    FloorDiv(original_length + self.k - 1, self.k)

\* a slip: the chunks are cut from the data without the padding
SEC_chunks_unpadded(self, data) ==
    LET chunk_size == SEC_chunk_size(self, Len(data))
    IN  [i \in 1..self.k |-> Slice(data, (i - 1) * chunk_size, i * chunk_size)]

\* the k chunks of the zero-padded data
SEC_chunks(self, data) ==
    LET chunk_size  == SEC_chunk_size(self, Len(data))
        padded_data == data \o Zeros(chunk_size * self.k - Len(data))
    IN  [i \in 1..self.k |->
            Slice(padded_data, (i - 1) * chunk_size, i * chunk_size)]

\* a slip: the inner loop runs over range(self.k - 1) and leaves the last
\* chunk out of the parity
SEC_parity_skips_last(chunks, chunk_size) ==
    [idx \in 1..chunk_size |->
        XorAll([j \in 1..(Len(chunks) - 1) |-> chunks[j][idx]])]

\* one parity chunk: a zeroed bytearray, every chunk XORed into it
SEC_parity(chunks, chunk_size) ==
    [idx \in 1..chunk_size |->
        XorAll([j \in 1..Len(chunks) |-> chunks[j][idx]])]

\* encode(data): (chunks + parity_chunks, metadata)
SEC_encode(self, data) ==
    LET original_length == Len(data)
        chunk_size      == SEC_chunk_size(self, original_length)
        chunks          == SEC_chunks(self, data)
        parity_chunks   == [i \in 1..self.m |-> SEC_parity(chunks, chunk_size)]
    IN  [fragments |-> chunks \o parity_chunks,
         metadata  |-> [original_length |-> original_length,
                        chunk_size      |-> chunk_size,
                        k               |-> self.k,
                        m               |-> self.m,
                        num_fragments   |-> self.k + self.m,
                        data_hash       |-> sha256_hexdigest(data)]]

ErrZeroDivision == "ZeroDivisionError: integer division or modulo by zero"

ErrNegativeCount == "ValueError: negative count"

\* the exception encode(data) raises, None when it returns: the division by
\* self.k, then bytearray(chunk_size) of the first parity chunk
SEC_encode_raises(self, data) ==
    IF self.k = 0 THEN Some(ErrZeroDivision)
    ELSE IF self.m > 0 /\ SEC_chunk_size(self, Len(data)) < 0
         THEN Some(ErrNegativeCount)
    ELSE None

SEC_Returned(data) == [status |-> "ok", data |-> data]

SEC_Raised(error) == [status |-> error, data |-> <<>>]

ErrTooFewFragments == "ValueError: Need at least k fragments"

ErrCannotReconstruct ==
    "ValueError: Cannot reconstruct missing data chunks with simple XOR parity"

ErrNoParity == "ValueError: Missing data chunk but no parity available"

ErrIndex == "IndexError: list assignment index out of range"

\* [idx for idx in fragment_indices if idx < k]
SEC_data_indices(fragment_indices, k) ==
    LET is_data(idx) == idx < k IN SelectSeq(fragment_indices, is_data)

\* [idx for idx in fragment_indices if idx >= k]
SEC_parity_indices(fragment_indices, k) ==
    LET is_parity(idx) == idx >= k IN SelectSeq(fragment_indices, is_parity)

\* fragment_dict[idx]: the fragment stored last under idx
SEC_fragment_dict(fragments, fragment_indices, idx) ==
    LET at == {i \in 1..Len(fragment_indices) : fragment_indices[i] = idx}
        last == CHOOSE i \in at : \A j \in at : j <= i
    IN  fragments[last]

\* a slip: the parity is not XORed with the available data chunks
SEC_xor_rebuild_parity_only(fragments, fragment_indices, k, chunk_size) ==
    LET parity_idx == SEC_parity_indices(fragment_indices, k)[1]
    IN  [b \in 1..chunk_size |->
            SEC_fragment_dict(fragments, fragment_indices, parity_idx)[b]]

\* the missing chunk: the first presented parity XOR every presented data
\* chunk, once per entry of data_indices
SEC_xor_rebuild(fragments, fragment_indices, k, chunk_size) ==
    LET data_indices == SEC_data_indices(fragment_indices, k)
        parity_idx   == SEC_parity_indices(fragment_indices, k)[1]
    IN  [b \in 1..chunk_size |->
            BitXor(SEC_fragment_dict(fragments, fragment_indices, parity_idx)[b],
                   XorAll([r \in 1..Len(data_indices) |->
                       SEC_fragment_dict(fragments, fragment_indices,
                                         data_indices[r])[b]]))]

\* len(fragments) < k
SEC_too_few(fragments, k) == Len(fragments) < k

RECURSIVE RStripZeros(_)
\* s.rstrip(b'\x00')
RStripZeros(s) ==
    IF s # <<>> /\ s[Len(s)] = 0 THEN RStripZeros(SubSeq(s, 1, Len(s) - 1))
    ELSE s

\* a slip: the padding is removed by stripping the trailing zero bytes
SEC_truncate_rstrip(reconstructed, original_length) == RStripZeros(reconstructed)

\* reconstructed[:original_length]
SEC_truncate(reconstructed, original_length) ==
    Slice(reconstructed, 0, original_length)

\* a slip: more than one missing chunk is rebuilt like a single one whenever
\* a parity is present
SEC_can_rebuild_any(missing_count, parity_count) ==
    missing_count >= 1 /\ parity_count > 0

\* len(missing_data_indices) == 1 and len(parity_indices) > 0
SEC_can_rebuild(missing_count, parity_count) ==
    missing_count = 1 /\ parity_count > 0

\* the slot reconstructed_chunks[idx] names in a list of k slots (a negative
\* idx counts from the end)
SEC_slot(idx, k) == IF idx >= 0 THEN idx ELSE k + idx

\* reconstructed_chunks[idx] = ... raises IndexError for some data index
SEC_fill_raises(data_indices, k) ==
    \E r \in 1..Len(data_indices) : data_indices[r] < 0 - k

\* reconstructed_chunks[c] after the fill loop: the fragment of the last data
\* index that names slot c, None when no data index names it
SEC_filled(fragments, fragment_indices, data_indices, k, c) ==
    LET at == {r \in 1..Len(data_indices) : SEC_slot(data_indices[r], k) = c}
        last == CHOOSE r \in at : \A q \in at : q <= r
    IN  IF at = {} THEN None
        ELSE Some(SEC_fragment_dict(fragments, fragment_indices,
                                    data_indices[last]))

\* decode(fragments, fragment_indices, metadata)
SEC_decode(self, fragments, fragment_indices, metadata) ==
    LET k               == metadata.k
        chunk_size      == metadata.chunk_size
        original_length == metadata.original_length
        data_indices    == SEC_data_indices(fragment_indices, k)
        parity_indices  == SEC_parity_indices(fragment_indices, k)
        missing_data_indices ==
            {i \in 0..(k - 1) :
                IsNone(SEC_filled(fragments, fragment_indices, data_indices, k, i))}
        join(rebuilt)   ==
            Join([c \in 1..k |->
                    IF (c - 1) \in missing_data_indices THEN rebuilt
                    ELSE Val(SEC_filled(fragments, fragment_indices,
                                        data_indices, k, c - 1))])
    IN  IF SEC_too_few(fragments, k) THEN SEC_Raised(ErrTooFewFragments)
        ELSE IF SEC_fill_raises(data_indices, k) THEN SEC_Raised(ErrIndex)
        ELSE IF Cardinality(missing_data_indices) = 0
             THEN SEC_Returned(SEC_truncate(join(<<>>), original_length))
        ELSE IF SEC_can_rebuild(Cardinality(missing_data_indices),
                                Len(parity_indices))
             THEN SEC_Returned(SEC_truncate(
                      join(SEC_xor_rebuild(fragments, fragment_indices, k,
                                           chunk_size)),
                      original_length))
        ELSE IF Cardinality(missing_data_indices) > 1
             THEN SEC_Raised(ErrCannotReconstruct)
        ELSE SEC_Raised(ErrNoParity)

(***************************************************************************)
(* SimpleErasureCode of erasure_coding_simple.py: the XOR coder without    *)
(* metadata (definitions prefixed Simple_).                                *)
(***************************************************************************)
Simple_init(k, m) == [k |-> k, m |-> m]

\* chunk_size = (len(data) + self.k - 1) // self.k
Simple_chunk_size(self, data) == FloorDiv(Len(data) + self.k - 1, self.k)

\* chunk i: data[start:min(end, len(data))], zero-padded to chunk_size
Simple_chunks(self, data) ==
    LET chunk_size == Simple_chunk_size(self, data)
    IN  [i \in 1..self.k |->
            LET chunk == Slice(data, (i - 1) * chunk_size,
                               Min(i * chunk_size, Len(data)))
            IN  IF Len(chunk) < chunk_size
                THEN chunk \o Zeros(chunk_size - Len(chunk))
                ELSE chunk]

\* one parity chunk: a zeroed bytearray, every chunk XORed into it
Simple_parity(chunks, chunk_size) ==
    [idx \in 1..chunk_size |->
        XorAll([j \in 1..Len(chunks) |-> chunks[j][idx]])]

\* encode(data): chunks + parity_chunks
Simple_encode(self, data) ==
    LET chunk_size    == Simple_chunk_size(self, data)
        chunks        == Simple_chunks(self, data)
        parity_chunks == [i \in 1..self.m |-> Simple_parity(chunks, chunk_size)]
    IN  chunks \o parity_chunks

ErrListIndex == "IndexError: list index out of range"

\* the positions of the presented data fragments (idx < self.k), sorted by
\* index (position breaks the tie of equal indices, which come with equal
\* fragments)
Simple_available_data_fragments(self, fragment_indices) ==
    LET at == {i \in 1..Len(fragment_indices) : fragment_indices[i] < self.k}
        before(i, j) == \/ fragment_indices[i] < fragment_indices[j]
                        \/ fragment_indices[i] = fragment_indices[j] /\ i < j
    IN  [r \in 1..Cardinality(at) |->
            CHOOSE i \in at : Cardinality({j \in at : before(j, i)}) = r - 1]

\* reconstructed_data.rstrip(b'\x00')
Simple_remove_padding(reconstructed_data) == RStripZeros(reconstructed_data)

\* decode(fragments, fragment_indices)
Simple_decode(self, fragments, fragment_indices) ==
    LET available == Simple_available_data_fragments(self, fragment_indices)
        reconstructed_data ==
            Join([r \in 1..Len(available) |-> fragments[available[r]]])
    IN  IF fragments = <<>> THEN SEC_Raised(ErrListIndex)
        ELSE SEC_Returned(Simple_remove_padding(reconstructed_data))

(***************************************************************************)
(* The file pipeline of erasure_coding_file.py: read_file_and_split and    *)
(* the fragment selection of file_based_erasure_coding.                    *)
(***************************************************************************)
\* a slip: the part size taken as the floor, file_size // num_parts
read_file_and_split_floor(data, parts) ==
    LET file_size == Len(data)
        part_size == FloorDiv(file_size, parts)
    IN  [i \in 1..parts |->
            Slice(data, (i - 1) * part_size, Min(i * part_size, file_size))]

\* read_file_and_split: the parts of the file,
\* part i = original_data[i*part_size : min((i+1)*part_size, file_size)]
read_file_and_split(data, parts) ==
    LET file_size == Len(data)
        part_size == FloorDiv(file_size + parts - 1, parts)
    IN  [i \in 1..parts |->
            Slice(data, (i - 1) * part_size, Min(i * part_size, file_size))]

\* a slip: a parity fragment is taken one data fragment too early
Select_may_add_parity_early(data_count, k) == data_count >= k - 2

\* elif data_count >= k - 1
Select_may_add_parity(data_count, k) == data_count >= k - 1

RECURSIVE Select_loop(_, _, _, _, _)
\* the first selection loop from position pos of the shuffled indices on:
\* selected_indices when the loop ends
Select_loop(shuffled, pos, selected, data_count, k) ==
    IF pos > Len(shuffled) \/ Len(selected) >= k THEN selected
    ELSE IF shuffled[pos] < k
         THEN Select_loop(shuffled, pos + 1, Append(selected, shuffled[pos]),
                          data_count + 1, k)
    ELSE IF Select_may_add_parity(data_count, k)
         THEN Select_loop(shuffled, pos + 1, Append(selected, shuffled[pos]),
                          data_count, k)
    ELSE Select_loop(shuffled, pos + 1, selected, data_count, k)

RECURSIVE Select_more_data(_, _, _)
\* the second loop, for idx in range(k) from idx on: a data index that is
\* not selected is appended, and the loop stops at k selected
Select_more_data(selected, idx, k) ==
    IF idx >= k THEN selected
    ELSE LET added == IF idx \in Range(selected) THEN selected
                      ELSE Append(selected, idx)
         IN  IF Len(added) >= k THEN added
             ELSE Select_more_data(added, idx + 1, k)

\* selected_indices after both loops, before sorted()
Select_fill(selected, k) ==
    IF Len(selected) < k THEN Select_more_data(selected, 0, k) ELSE selected

\* sorted(selected_indices), the indices being distinct
Sorted(q) ==
    [r \in 1..Len(q) |->
        CHOOSE x \in Range(q) : Cardinality({y \in Range(q) : y < x}) = r - 1]

(***************************************************************************)
(* The state: a demonstration run of ErasureCodingRecovery (SpecRS), a run *)
(* of SimpleErasureCode on one file part (SpecXor), and a client that      *)
(* holds two coder instances and the results of its encode calls           *)
(* (SpecCalls). Each specification leaves the variables of the others at   *)
(* their initial value.                                                    *)
(***************************************************************************)
VARIABLES
    ec_system,    \* the ErasureCodingRecovery instance
    test_data,    \* the bytes that are encoded
    all_shards,   \* the shards encode returned, None before the call
    metadata,     \* the metadata encode returned, None before the call
    test_shards,  \* the n-slot list handed to decode, None before it is made
    recovered,    \* the outcome of decode, None before the call
    ec,           \* the SimpleErasureCode instance
    part_data,    \* the bytes of the file part
    fragments,    \* the fragments encode returned, None before the call
    part_metadata,      \* the metadata encode returned, None before the call
    selected_indices,   \* the indices handed to decode, None before selection
    selected_fragments, \* the fragments handed to decode
    reconstructed_data, \* the outcome of decode, None before the call
    raised,       \* the exception encode raised, None when there is none
    call_input,   \* the client's coder class, parameters and bytes to encode
    instances,    \* the client's coder instances, None until constructed
    calls,        \* the results of the client's latest encode calls
    last_decode,  \* the outcome of the client's latest decode call
    original_data,  \* the bytes of the file
    num_parts,      \* the number of parts the file is split into
    file_parts,     \* the parts, None before the split
    all_fragments,  \* the fragments of the parts encoded so far
    all_metadata,   \* the metadata of the parts encoded so far
    all_indices,    \* the shuffled fragment indices of the current part
    loop_selected,  \* selected_indices when the first selection loop ends
    reconstructed_parts, \* the parts reconstructed so far
    part_verified,  \* per reconstructed part: its hash equals the metadata's
    final,          \* how the run ended, None while it runs
    scenario_log    \* the loss scenario under test and the one before it

rs_vars == <<ec_system, test_data, all_shards, metadata, test_shards, recovered>>

xor_vars == <<ec, part_data, fragments, part_metadata, selected_indices,
              selected_fragments, reconstructed_data, raised>>

calls_vars == <<call_input, instances, calls, last_decode>>

file_vars == <<original_data, num_parts, file_parts, all_fragments,
               all_metadata, all_indices, loop_selected, reconstructed_parts,
               part_verified, final>>

log_vars == <<scenario_log>>

vars == <<rs_vars, xor_vars, calls_vars, file_vars, log_vars>>

\* the chunk sizes an instance is constructed with (chunk_size=1024 and the
\* default 1024*1024)
ChunkSizes == {1024, 1048576}

\* the (k, n) an ErasureCodingRecovery is constructed with: 1 <= k <= n
ValidKN == {kn \in (1..MaxK) \X (1..MaxN) : kn[1] <= kn[2]}

\* the (k, m) a SimpleErasureCode is constructed with: k >= 1, m >= 0
ValidKM == {km \in (1..MaxK) \X (0..MaxN) : km[1] + km[2] <= MaxN}

\* the inputs
Datas == BytesUpTo(MaxLen)

RSIdle ==
    /\ ec_system = None
    /\ test_data = None
    /\ all_shards = None
    /\ metadata = None
    /\ test_shards = None
    /\ recovered = None

XorIdle ==
    /\ ec = None
    /\ part_data = None
    /\ fragments = None
    /\ part_metadata = None
    /\ selected_indices = None
    /\ selected_fragments = None
    /\ reconstructed_data = None
    /\ raised = None

CallsIdle ==
    /\ call_input = None
    /\ instances = None
    /\ calls = None
    /\ last_decode = None

FileIdle ==
    /\ original_data = None
    /\ num_parts = None
    /\ file_parts = None
    /\ all_fragments = None
    /\ all_metadata = None
    /\ all_indices = None
    /\ loop_selected = None
    /\ reconstructed_parts = None
    /\ part_verified = None
    /\ final = None

LogIdle == scenario_log = None

(***************************************************************************)
(* SpecRS: demonstrate_3_of_7 / demonstrate_any_k_shards, for any (k, n),  *)
(* any data and any set of lost shards.                                    *)
(***************************************************************************)
\* ec_system = ErasureCodingRecovery(k, n, chunk_size); test_data = ...
InitRS ==
    /\ \E kn \in ValidKN : ec_system = ECR_init(kn[1], kn[2], 1024)
    /\ test_data \in Datas
    /\ all_shards = None
    /\ metadata = None
    /\ test_shards = None
    /\ recovered = None
    /\ XorIdle
    /\ CallsIdle
    /\ FileIdle
    /\ LogIdle

\* all_shards, metadata = ec_system.encode(test_data)
Encode ==
    /\ IsNone(all_shards)
    /\ LET r == ECR_encode(ec_system, test_data)
       IN  /\ all_shards' = Some(r.shards)
           /\ metadata' = Some(r.metadata)
    /\ UNCHANGED <<ec_system, test_data, test_shards, recovered>>
    /\ UNCHANGED <<xor_vars, calls_vars, file_vars, log_vars>>

\* test_shards = all_shards.copy(); test_shards[idx] = None for the lost idx
\* (equally: [None] * n, then test_shards[idx] = shards[idx] for the kept);
\* a scenario starts when the one before has been decoded
LoseShards(lost_indices) ==
    /\ ~IsNone(all_shards)
    /\ IsNone(test_shards) \/ ~IsNone(recovered)
    /\ test_shards' = Some([i \in 1..Len(Val(all_shards)) |->
                              IF (i - 1) \in lost_indices THEN None
                              ELSE Some(Val(all_shards)[i])])
    /\ recovered' = None
    /\ UNCHANGED <<ec_system, test_data, all_shards, metadata>>
    /\ UNCHANGED <<xor_vars, calls_vars, file_vars, log_vars>>

\* byte with bit number `bit` flipped
FlipBit(byte, bit) == BitXor(byte, 2 ^ bit)

\* the slots of test_shards whose bytes differ from the encoded shard
TamperedSlots ==
    IF IsNone(test_shards) THEN {}
    ELSE {i \in 0..(Len(Val(test_shards)) - 1) :
            /\ ~IsNone(Val(test_shards)[i + 1])
            /\ Val(Val(test_shards)[i + 1]) # Val(all_shards)[i + 1]}

\* a stored shard is damaged before decode: one bit of one byte of one
\* presented shard is flipped; at most one flip per presented list
Tamper ==
    /\ ~IsNone(test_shards)
    /\ IsNone(recovered)
    /\ TamperedSlots = {}
    /\ \E idx \in 0..(Len(Val(test_shards)) - 1) :
         /\ ~IsNone(Val(test_shards)[idx + 1])
         /\ LET shard == Val(Val(test_shards)[idx + 1])
            IN  \E pos \in 0..(Len(shard) - 1), bit \in TamperBits :
                  test_shards' = Some([Val(test_shards) EXCEPT ![idx + 1] =
                      Some([shard EXCEPT ![pos + 1] = FlipBit(shard[pos + 1], bit)])])
    /\ UNCHANGED <<ec_system, test_data, all_shards, metadata, recovered>>
    /\ UNCHANGED <<xor_vars, calls_vars, file_vars, log_vars>>

\* a slip: decode clears, in the caller's list, the slots it does not use
Decode_clears_unused ==
    /\ ~IsNone(test_shards)
    /\ IsNone(recovered)
    /\ recovered' = Some(ECR_decode(ec_system, Val(test_shards), Val(metadata)))
    /\ test_shards' =
           Some([i \in 1..Len(Val(test_shards)) |->
                   IF (i - 1) \in Range(Val(recovered').used)
                   THEN Val(test_shards)[i] ELSE None])
    /\ UNCHANGED <<ec_system, test_data, all_shards, metadata>>
    /\ UNCHANGED <<xor_vars, calls_vars, file_vars, log_vars>>

\* recovered_data = ec_system.decode(test_shards, metadata), or the error
Decode ==
    /\ ~IsNone(test_shards)
    /\ IsNone(recovered)
    /\ recovered' = Some(ECR_decode(ec_system, Val(test_shards), Val(metadata)))
    /\ UNCHANGED <<ec_system, test_data, all_shards, metadata, test_shards>>
    /\ UNCHANGED <<xor_vars, calls_vars, file_vars, log_vars>>

NextRS ==
    \/ Encode
    \/ \E lost_indices \in SUBSET (0..(MaxN - 1)) : LoseShards(lost_indices)
    \/ Tamper
    \/ Decode

SpecRS == InitRS /\ [][NextRS]_vars

(***************************************************************************)
(* SpecScenarios: the scenario loop of demonstrate_3_of_7 for any (k, n)   *)
(* and any list of loss scenarios; scenario_log keeps the lost indices of  *)
(* the scenario under test and the lost indices and the outcome of the one *)
(* before it.                                                              *)
(***************************************************************************)
InitScenarios ==
    /\ \E kn \in ValidKN : ec_system = ECR_init(kn[1], kn[2], 1024)
    /\ test_data \in Datas
    /\ all_shards = None
    /\ metadata = None
    /\ test_shards = None
    /\ recovered = None
    /\ scenario_log = [previous |-> None, current |-> None]
    /\ XorIdle
    /\ CallsIdle
    /\ FileIdle

\* the next iteration of "for scenario_name, lost_indices in scenarios":
\* test_shards = all_shards.copy(); test_shards[idx] = None for the lost idx
NextScenario(lost_indices) ==
    /\ ~IsNone(all_shards)
    /\ IsNone(test_shards) \/ ~IsNone(recovered)
    /\ lost_indices \subseteq 0..(Len(Val(all_shards)) - 1)
    /\ test_shards' = Some([i \in 1..Len(Val(all_shards)) |->
                              IF (i - 1) \in lost_indices THEN None
                              ELSE Some(Val(all_shards)[i])])
    /\ recovered' = None
    /\ scenario_log' =
           [previous |-> IF IsNone(scenario_log.current) THEN None
                         ELSE Some([lost_indices |-> Val(scenario_log.current),
                                    outcome |-> Val(recovered)]),
            current  |-> Some(lost_indices)]
    /\ UNCHANGED <<ec_system, test_data, all_shards, metadata>>
    /\ UNCHANGED <<xor_vars, calls_vars, file_vars>>

NextScenarios ==
    \/ Encode
    \/ \E lost_indices \in SUBSET (0..(MaxN - 1)) : NextScenario(lost_indices)
    \/ Decode

SpecScenarios == InitScenarios /\ [][NextScenarios]_vars

(***************************************************************************)
(* SpecXor: one file part through SimpleErasureCode: encode, a selection   *)
(* of fragments (any distinct indices of [0, k+m), in any order), decode.  *)
(***************************************************************************)
\* the sequences of distinct elements of S
DistinctSeqs(S) ==
    {q \in UNION {[1..l -> S] : l \in 0..Cardinality(S)} :
        \A i, j \in 1..Len(q) : i # j => q[i] # q[j]}

\* ec = SimpleErasureCode(k=k, m=m); part_data = ...
InitXor ==
    /\ \E km \in ValidKM : ec = SEC_init(km[1], km[2])
    /\ part_data \in Datas
    /\ fragments = None
    /\ part_metadata = None
    /\ selected_indices = None
    /\ selected_fragments = None
    /\ reconstructed_data = None
    /\ raised = None
    /\ RSIdle
    /\ CallsIdle
    /\ FileIdle
    /\ LogIdle

\* fragments, metadata = ec.encode(part_data), or the exception of encode
EncodePart ==
    /\ IsNone(fragments)
    /\ IsNone(raised)
    /\ IF IsNone(SEC_encode_raises(ec, part_data))
       THEN /\ fragments' = Some(SEC_encode(ec, part_data).fragments)
            /\ part_metadata' = Some(SEC_encode(ec, part_data).metadata)
            /\ raised' = None
       ELSE /\ raised' = SEC_encode_raises(ec, part_data)
            /\ UNCHANGED <<fragments, part_metadata>>
    /\ UNCHANGED <<ec, part_data, selected_indices, selected_fragments,
                   reconstructed_data>>
    /\ UNCHANGED <<rs_vars, calls_vars, file_vars, log_vars>>

\* selected_fragments = [fragments[i] for i in selected_indices]
SelectFragments(indices) ==
    /\ ~IsNone(fragments)
    /\ IsNone(selected_indices)
    /\ Range(indices) \subseteq 0..(Len(Val(fragments)) - 1)
    /\ selected_indices' = Some(indices)
    /\ selected_fragments' =
           Some([i \in 1..Len(indices) |-> Val(fragments)[indices[i] + 1]])
    /\ UNCHANGED <<ec, part_data, fragments, part_metadata, reconstructed_data,
                   raised>>
    /\ UNCHANGED <<rs_vars, calls_vars, file_vars, log_vars>>

\* ec = SimpleErasureCode(k=k, m=m)
\* reconstructed_data = ec.decode(selected_fragments, selected_indices, metadata)
DecodePart ==
    /\ ~IsNone(selected_indices)
    /\ IsNone(reconstructed_data)
    /\ reconstructed_data' =
           Some(SEC_decode(SEC_init(ec.k, ec.m), Val(selected_fragments),
                           Val(selected_indices), Val(part_metadata)))
    /\ UNCHANGED <<ec, part_data, fragments, part_metadata, selected_indices,
                   selected_fragments, raised>>
    /\ UNCHANGED <<rs_vars, calls_vars, file_vars, log_vars>>

NextXor ==
    \/ EncodePart
    \/ \E indices \in DistinctSeqs(0..(MaxN - 1)) : SelectFragments(indices)
    \/ DecodePart

SpecXor == InitXor /\ [][NextXor]_vars

(***************************************************************************)
(* SpecXorParams: SimpleErasureCode constructed with any integers (k, m),  *)
(* also k <= 0, m < 0 and k + m > 255, and encode called on it.            *)
(***************************************************************************)
\* the (k, m) of the constructor call: any integers near zero, and two
\* pairs with k + m = 256
AnyKM == (((0 - MaxK)..MaxK) \X ((0 - 1)..(MaxN - 1))) \cup {<<1, 255>>, <<2, 254>>}

\* ec = SimpleErasureCode(k=k, m=m); part_data = ...
InitXorParams ==
    /\ \E km \in AnyKM : ec = SEC_init(km[1], km[2])
    /\ part_data \in Datas
    /\ fragments = None
    /\ part_metadata = None
    /\ selected_indices = None
    /\ selected_fragments = None
    /\ reconstructed_data = None
    /\ raised = None
    /\ RSIdle
    /\ CallsIdle
    /\ FileIdle
    /\ LogIdle

NextXorParams == EncodePart

SpecXorParams == InitXorParams /\ [][NextXorParams]_vars

(***************************************************************************)
(* SpecXorCaller: a caller of decode that labels the fragments it presents *)
(* with any indices: repeated, negative, or not below k + m.               *)
(***************************************************************************)
\* the indices a caller may write: a few below zero, the valid ones, and
\* one past the largest n
IndexLabels == (0 - MaxK - 1)..MaxN

\* the longest list a caller presents
MaxPresented == 3

\* the lists of fragment indices a caller may present
IndexLists == UNION {[1..l -> IndexLabels] : l \in 0..MaxPresented}

\* decode's arguments as a caller builds them: fragments[i] belongs to
\* fragment_indices[i]; an index of [0, k+m) comes with the fragment encode
\* returned at that index, any other index comes with the first or with the
\* last fragment (fragments[-1] is the last one in Python)
PresentFragments ==
    /\ ~IsNone(fragments)
    /\ IsNone(selected_indices)
    /\ Len(Val(fragments)) > 0
    /\ \E indices \in IndexLists, from_last \in BOOLEAN :
         LET n == Len(Val(fragments))
             source(idx) == IF idx \in 0..(n - 1) THEN idx
                            ELSE IF from_last THEN n - 1 ELSE 0
         IN  /\ selected_indices' = Some(indices)
             /\ selected_fragments' =
                    Some([i \in 1..Len(indices) |->
                            Val(fragments)[source(indices[i]) + 1]])
    /\ UNCHANGED <<ec, part_data, fragments, part_metadata, reconstructed_data,
                   raised>>
    /\ UNCHANGED <<rs_vars, calls_vars, file_vars, log_vars>>

NextXorCaller ==
    \/ EncodePart
    \/ PresentFragments
    \/ DecodePart

SpecXorCaller == InitXor /\ [][NextXorCaller]_vars

(***************************************************************************)
(* SpecXorCorrupt: SpecXor with a stored fragment damaged before decode.   *)
(***************************************************************************)
\* the bit positions a corruption flips
CorruptBits == {0, 7}

\* one bit of one byte of one presented fragment is flipped, once
CorruptFragment ==
    /\ ~IsNone(selected_fragments)
    /\ IsNone(reconstructed_data)
    /\ \A i \in 1..Len(Val(selected_fragments)) :
          Val(selected_fragments)[i] = Val(fragments)[Val(selected_indices)[i] + 1]
    /\ \E i \in 1..Len(Val(selected_fragments)) :
         LET frag == Val(selected_fragments)[i]
         IN  \E pos \in 1..Len(frag), bit \in CorruptBits :
               selected_fragments' = Some([Val(selected_fragments) EXCEPT
                   ![i] = [frag EXCEPT ![pos] = FlipBit(frag[pos], bit)]])
    /\ UNCHANGED <<ec, part_data, fragments, part_metadata, selected_indices,
                   reconstructed_data, raised>>
    /\ UNCHANGED <<rs_vars, calls_vars, file_vars, log_vars>>

NextXorCorrupt ==
    \/ EncodePart
    \/ \E indices \in DistinctSeqs(0..(MaxN - 1)) : SelectFragments(indices)
    \/ CorruptFragment
    \/ DecodePart

SpecXorCorrupt == InitXor /\ [][NextXorCorrupt]_vars

(***************************************************************************)
(* SpecSimple: advanced_erasure_coding_demo of erasure_coding_simple.py    *)
(* for one test case: encode, shuffle, the first k indices, decode. The    *)
(* run uses ec, fragments, selected_indices, selected_fragments and        *)
(* reconstructed_data; part_data holds its original_data.                  *)
(***************************************************************************)
\* ec = SimpleErasureCode(k=4, m=2)
DemoK == 4

DemoM == 2

\* the first k entries of the shuffled indices of n fragments
ShuffledPrefixes(n, k) ==
    {q \in [1..k -> 0..(n - 1)] : \A i, j \in 1..k : i # j => q[i] # q[j]}

\* ec = SimpleErasureCode(k, m); original_data = ...
InitSimple ==
    /\ \E km \in ValidKM \cup {<<DemoK, DemoM>>} : ec = Simple_init(km[1], km[2])
    /\ part_data \in Datas
    /\ fragments = None
    /\ part_metadata = None
    /\ selected_indices = None
    /\ selected_fragments = None
    /\ reconstructed_data = None
    /\ raised = None
    /\ RSIdle
    /\ CallsIdle
    /\ FileIdle
    /\ LogIdle

\* fragments = ec.encode(original_data)
EncodeSimple ==
    /\ IsNone(fragments)
    /\ fragments' = Some(Simple_encode(ec, part_data))
    /\ UNCHANGED <<ec, part_data, part_metadata, selected_indices,
                   selected_fragments, reconstructed_data, raised>>
    /\ UNCHANGED <<rs_vars, calls_vars, file_vars, log_vars>>

\* random.shuffle(all_indices); selected_indices = all_indices[:ec.k]
\* selected_fragments = [fragments[i] for i in selected_indices]
ShuffleAndSelect ==
    /\ ~IsNone(fragments)
    /\ IsNone(selected_indices)
    /\ \E q \in ShuffledPrefixes(Len(Val(fragments)), ec.k) :
          /\ selected_indices' = Some(q)
          /\ selected_fragments' =
                 Some([i \in 1..Len(q) |-> Val(fragments)[q[i] + 1]])
    /\ UNCHANGED <<ec, part_data, fragments, part_metadata, reconstructed_data,
                   raised>>
    /\ UNCHANGED <<rs_vars, calls_vars, file_vars, log_vars>>

\* reconstructed_data = ec.decode(selected_fragments, selected_indices)
DecodeSimple ==
    /\ ~IsNone(selected_indices)
    /\ IsNone(reconstructed_data)
    /\ reconstructed_data' =
           Some(Simple_decode(ec, Val(selected_fragments), Val(selected_indices)))
    /\ UNCHANGED <<ec, part_data, fragments, part_metadata, selected_indices,
                   selected_fragments, raised>>
    /\ UNCHANGED <<rs_vars, calls_vars, file_vars, log_vars>>

NextSimple ==
    \/ EncodeSimple
    \/ ShuffleAndSelect
    \/ DecodeSimple

SpecSimple == InitSimple /\ [][NextSimple]_vars

(***************************************************************************)
(* SpecFile: file_based_erasure_coding(filename, num_parts, k, m) on any   *)
(* file content: split, encode every part, then for every part shuffle,    *)
(* select k fragments, decode and verify; at the end join and verify.      *)
(* The run uses ec, selected_indices, selected_fragments and               *)
(* reconstructed_data for the part that is being reconstructed.            *)
(***************************************************************************)
\* the permutations of 0..n-1
Shuffles(n) ==
    {q \in [1..n -> 0..(n - 1)] : \A i, j \in 1..n : i # j => q[i] # q[j]}

\* original_data = f.read(); the arguments num_parts, k, m
InitFile ==
    /\ original_data \in Datas
    /\ num_parts \in 1..MaxParts
    /\ \E km \in ValidKM : ec = SEC_init(km[1], km[2])
    /\ file_parts = None
    /\ all_fragments = <<>>
    /\ all_metadata = <<>>
    /\ all_indices = None
    /\ loop_selected = None
    /\ reconstructed_parts = <<>>
    /\ part_verified = <<>>
    /\ final = None
    /\ scenario_log = None
    /\ part_data = None
    /\ fragments = None
    /\ part_metadata = None
    /\ selected_indices = None
    /\ selected_fragments = None
    /\ reconstructed_data = None
    /\ raised = None
    /\ RSIdle
    /\ CallsIdle

\* _, file_parts = read_file_and_split(filename, num_parts); the run returns
\* when there is no part
ReadAndSplit ==
    /\ IsNone(file_parts)
    /\ IsNone(final)
    /\ file_parts' = Some(read_file_and_split(original_data, num_parts))
    /\ final' = IF read_file_and_split(original_data, num_parts) = <<>>
                THEN Some("RETURN") ELSE None
    /\ UNCHANGED <<original_data, num_parts, all_fragments, all_metadata,
                   all_indices, loop_selected, reconstructed_parts,
                   part_verified>>
    /\ UNCHANGED <<rs_vars, xor_vars, calls_vars, log_vars>>

\* one iteration of the encoding loop: ec = SimpleErasureCode(k=k, m=m);
\* fragments, metadata = ec.encode(part_data); both are appended
EncodeFilePart ==
    /\ ~IsNone(file_parts)
    /\ IsNone(final)
    /\ Len(all_fragments) < Len(Val(file_parts))
    /\ LET this_part == Val(file_parts)[Len(all_fragments) + 1]
       IN  /\ all_fragments' =
                  Append(all_fragments, SEC_encode(SEC_init(ec.k, ec.m), this_part).fragments)
           /\ all_metadata' =
                  Append(all_metadata, SEC_encode(SEC_init(ec.k, ec.m), this_part).metadata)
    /\ UNCHANGED <<original_data, num_parts, file_parts, all_indices,
                   loop_selected, reconstructed_parts, part_verified, final>>
    /\ UNCHANGED <<rs_vars, xor_vars, calls_vars, log_vars>>

\* the selection of one iteration of the reconstruction loop: the shuffle,
\* both selection loops, sorted(), selected_fragments
SelectForPart ==
    /\ ~IsNone(file_parts)
    /\ IsNone(final)
    /\ Len(all_fragments) = Len(Val(file_parts))
    /\ Len(reconstructed_parts) < Len(all_fragments)
    /\ IsNone(all_indices)
    /\ LET part_fragments == all_fragments[Len(reconstructed_parts) + 1]
       IN  \E shuffled \in Shuffles(Len(part_fragments)) :
             /\ all_indices' = Some(shuffled)
             /\ loop_selected' = Some(Select_loop(shuffled, 1, <<>>, 0, ec.k))
             /\ selected_indices' =
                    Some(Sorted(Select_fill(Select_loop(shuffled, 1, <<>>, 0, ec.k), ec.k)))
             /\ selected_fragments' =
                    Some([i \in 1..Len(Select_fill(
                                  Select_loop(shuffled, 1, <<>>, 0, ec.k), ec.k)) |->
                        part_fragments[Sorted(Select_fill(
                            Select_loop(shuffled, 1, <<>>, 0, ec.k), ec.k))[i] + 1]])
    /\ reconstructed_data' = None
    /\ UNCHANGED <<ec, part_data, fragments, part_metadata, raised>>
    /\ UNCHANGED <<original_data, num_parts, file_parts, all_fragments,
                   all_metadata, reconstructed_parts, part_verified, final>>
    /\ UNCHANGED <<rs_vars, calls_vars, log_vars>>

\* the rest of the iteration: ec = SimpleErasureCode(k=k, m=m);
\* reconstructed_data = ec.decode(...); the hash is compared and the part is
\* appended, or the exception ends the run
ReconstructPart ==
    /\ ~IsNone(all_indices)
    /\ IsNone(final)
    /\ reconstructed_data' =
           Some(SEC_decode(SEC_init(ec.k, ec.m), Val(selected_fragments),
                           Val(selected_indices),
                           all_metadata[Len(reconstructed_parts) + 1]))
    /\ IF Val(reconstructed_data').status = "ok"
       THEN /\ reconstructed_parts' =
                   Append(reconstructed_parts, Val(reconstructed_data').data)
            /\ part_verified' =
                   Append(part_verified,
                          sha256_hexdigest(Val(reconstructed_data').data)
                              = all_metadata[Len(reconstructed_parts) + 1].data_hash)
            /\ final' = None
       ELSE /\ final' = Some("ERROR during reconstruction")
            /\ UNCHANGED <<reconstructed_parts, part_verified>>
    /\ all_indices' = None
    /\ UNCHANGED <<ec, part_data, fragments, part_metadata, selected_indices,
                   selected_fragments, raised>>
    /\ UNCHANGED <<original_data, num_parts, file_parts, all_fragments,
                   all_metadata, loop_selected>>
    /\ UNCHANGED <<rs_vars, calls_vars, log_vars>>

\* final_reconstructed = b''.join(reconstructed_parts); its hash is compared
\* with the hash of the file
FinalVerification ==
    /\ ~IsNone(file_parts)
    /\ IsNone(final)
    /\ IsNone(all_indices)
    /\ Len(reconstructed_parts) = Len(Val(file_parts))
    /\ final' = IF sha256_hexdigest(original_data)
                      = sha256_hexdigest(Join(reconstructed_parts))
                THEN Some("SUCCESS") ELSE Some("FAILED")
    /\ UNCHANGED <<original_data, num_parts, file_parts, all_fragments,
                   all_metadata, all_indices, loop_selected,
                   reconstructed_parts, part_verified>>
    /\ UNCHANGED <<rs_vars, xor_vars, calls_vars, log_vars>>

NextFile ==
    \/ ReadAndSplit
    \/ EncodeFilePart
    \/ SelectForPart
    \/ ReconstructPart
    \/ FinalVerification

SpecFile == InitFile /\ [][NextFile]_vars

(***************************************************************************)
(* SpecCalls: a client that constructs up to two coders of one class with  *)
(* the same parameters, separately, and calls encode and decode on them in *)
(* any order, keeping the results of its latest encode calls.              *)
(***************************************************************************)
InstIds == 1..2

InitCalls ==
    /\ \/ \E kn \in ValidKN, d \in Datas :
            call_input = [cls |-> "ECR", k |-> kn[1], r |-> kn[2], data |-> d]
       \/ \E km \in ValidKM, d \in Datas :
            call_input = [cls |-> "SEC", k |-> km[1], r |-> km[2], data |-> d]
    /\ instances = [i \in InstIds |-> None]
    /\ calls = <<>>
    /\ last_decode = None
    /\ RSIdle
    /\ XorIdle
    /\ FileIdle
    /\ LogIdle

\* ErasureCodingRecovery(k=k, n=n, chunk_size=chunk_size)
ConstructECR(i, chunk_size) ==
    /\ call_input.cls = "ECR"
    /\ IsNone(instances[i])
    /\ instances' = [instances EXCEPT
           ![i] = Some(ECR_init(call_input.k, call_input.r, chunk_size))]
    /\ UNCHANGED <<call_input, calls, last_decode>>
    /\ UNCHANGED <<rs_vars, xor_vars, file_vars, log_vars>>

\* SimpleErasureCode(k=k, m=m)
ConstructSEC(i) ==
    /\ call_input.cls = "SEC"
    /\ IsNone(instances[i])
    /\ instances' = [instances EXCEPT
           ![i] = Some(SEC_init(call_input.k, call_input.r))]
    /\ UNCHANGED <<call_input, calls, last_decode>>
    /\ UNCHANGED <<rs_vars, xor_vars, file_vars, log_vars>>

\* the client keeps the results of its MaxCalls latest encode calls
Keep(log, rec) ==
    IF Len(log) < MaxCalls THEN Append(log, rec) ELSE Append(Tail(log), rec)

\* shards, metadata = instances[i].encode(data), ErasureCodingRecovery
CallEncodeECR(i) ==
    /\ call_input.cls = "ECR"
    /\ ~IsNone(instances[i])
    /\ LET r == ECR_encode(Val(instances[i]), call_input.data)
       IN  calls' = Keep(calls, [inst |-> i, shards |-> r.shards,
                                 metadata |-> r.metadata])
    /\ UNCHANGED <<call_input, instances, last_decode>>
    /\ UNCHANGED <<rs_vars, xor_vars, file_vars, log_vars>>

\* fragments, metadata = instances[i].encode(data), SimpleErasureCode
CallEncodeSEC(i) ==
    /\ call_input.cls = "SEC"
    /\ ~IsNone(instances[i])
    /\ LET r == SEC_encode(Val(instances[i]), call_input.data)
       IN  calls' = Keep(calls, [inst |-> i, shards |-> r.fragments,
                                 metadata |-> r.metadata])
    /\ UNCHANGED <<call_input, instances, last_decode>>
    /\ UNCHANGED <<rs_vars, xor_vars, file_vars, log_vars>>

\* the indices of S in ascending order
Ascending(S) ==
    [r \in 1..Cardinality(S) |->
        CHOOSE i \in S : Cardinality({x \in S : x < i}) = r - 1]

\* the shards of the latest encode call
LatestShards == calls[Len(calls)].shards

\* the n-slot list of the latest shards with the lost ones None
WithLost(lost) ==
    [j \in 1..Len(LatestShards) |->
        IF (j - 1) \in lost THEN None ELSE Some(LatestShards[j])]

\* the indices of the latest shards that are not lost, ascending
KeptIndices(lost) == Ascending((0..(Len(LatestShards) - 1)) \ lost)

\* instances[i].decode(shards, metadata) on the result of the latest encode
\* call, ErasureCodingRecovery
CallDecodeECR(i, lost) ==
    /\ call_input.cls = "ECR"
    /\ ~IsNone(instances[i])
    /\ calls # <<>>
    /\ last_decode' = Some(ECR_decode(Val(instances[i]), WithLost(lost),
                                      calls[Len(calls)].metadata))
    /\ UNCHANGED <<call_input, instances, calls>>
    /\ UNCHANGED <<rs_vars, xor_vars, file_vars, log_vars>>

\* instances[i].decode(fragments, indices, metadata) on the result of the
\* latest encode call, SimpleErasureCode
CallDecodeSEC(i, lost) ==
    /\ call_input.cls = "SEC"
    /\ ~IsNone(instances[i])
    /\ calls # <<>>
    /\ last_decode' =
           Some(SEC_decode(Val(instances[i]),
                           [j \in 1..Len(KeptIndices(lost)) |->
                               LatestShards[KeptIndices(lost)[j] + 1]],
                           KeptIndices(lost), calls[Len(calls)].metadata))
    /\ UNCHANGED <<call_input, instances, calls>>
    /\ UNCHANGED <<rs_vars, xor_vars, file_vars, log_vars>>

\* the client loses the first lost_count shards
FirstLost(lost_count) == {j \in 0..(MaxN - 1) : j < lost_count}

NextCalls ==
    \/ \E i \in InstIds, chunk_size \in ChunkSizes : ConstructECR(i, chunk_size)
    \/ \E i \in InstIds : ConstructSEC(i)
    \/ \E i \in InstIds : CallEncodeECR(i)
    \/ \E i \in InstIds : CallEncodeSEC(i)
    \/ \E i \in InstIds, lost_count \in 0..MaxN :
           CallDecodeECR(i, FirstLost(lost_count))
    \/ \E i \in InstIds, lost_count \in 0..MaxN :
           CallDecodeSEC(i, FirstLost(lost_count))

SpecCalls == InitCalls /\ [][NextCalls]_vars

(***************************************************************************)
(* Claims about ErasureCodingRecovery, checked under SpecRS.               *)
(***************************************************************************)
\* the indices of the slots of test_shards that hold a shard
PresentSet ==
    IF IsNone(test_shards) THEN {}
    ELSE {i \in 0..(Len(Val(test_shards)) - 1) : ~IsNone(Val(test_shards)[i + 1])}

\* the k lowest indices of PresentSet (all of it when it has at most k)
LowestK ==
    {i \in PresentSet : Cardinality({x \in PresentSet : x < i}) < ec_system.k}

DecodeDone == ~IsNone(recovered)

\* decode returned exactly test_data
ReturnedOriginal ==
    /\ Val(recovered).status = "ok"
    /\ Val(recovered).data = test_data

\* C1: decode of the list that holds the encoded shards at exactly k indices
\* (any subset of size k: data, parity or mixed) and None elsewhere returns
\* exactly the encoded data.
C1_AnyKShardsRecover ==
    (DecodeDone /\ TamperedSlots = {} /\ Cardinality(PresentSet) = ec_system.k)
        => ReturnedOriginal

\* a decode from parity shards only, of padded data
C1_Witness ==
    /\ DecodeDone
    /\ TamperedSlots = {}
    /\ ec_system.k >= 2
    /\ Cardinality(PresentSet) = ec_system.k
    /\ \A i \in PresentSet : i >= ec_system.k
    /\ Val(metadata).padding > 0
    /\ ReturnedOriginal

\* C2: with fewer than k slots present decode raises the insufficient-shards
\* ValueError, returns no bytes, and has neither called zfec nor compared a
\* digest.
C2_BelowThresholdFails ==
    (DecodeDone /\ Cardinality(PresentSet) < ec_system.k)
        => /\ Val(recovered).status = ErrInsufficient
           /\ Val(recovered).data = <<>>
           /\ Val(recovered).used = <<>>
           /\ ~Val(recovered).hashed

\* a decode of exactly k-1 shards, one of them a parity shard
C2_Witness ==
    /\ DecodeDone
    /\ ec_system.k >= 2
    /\ Cardinality(PresentSet) = ec_system.k - 1
    /\ \E i \in PresentSet : i >= ec_system.k
    /\ Val(recovered).status = ErrInsufficient

\* a single tampered shard was presented with at least k shards, and decoded
TamperDecoded ==
    /\ DecodeDone
    /\ TamperedSlots # {}
    /\ Cardinality(PresentSet) >= ec_system.k

TamperedUsed == TamperedSlots \subseteq LowestK

\* C3 as claimed: a tampered shard that is used makes decode fail with the
\* SHA-256 mismatch error, a tampered shard that is not used leaves decode
\* returning the original data; there is no third outcome.
C3_TamperAlwaysDetected ==
    TamperDecoded =>
        IF TamperedUsed THEN Val(recovered).status = ErrSha256
        ELSE ReturnedOriginal

\* C3 as amended: a tampered shard that is not used leaves decode returning
\* the original data; a tampered shard that is used makes decode fail with
\* the SHA-256 mismatch error, or, only when the metadata has padding > 0
\* (the damage then lies in bytes the padding removal drops), decode returns
\* the original data. decode never returns other bytes.
C3_TamperDetectedOrHarmless ==
    TamperDecoded =>
        /\ ~TamperedUsed => ReturnedOriginal
        /\ TamperedUsed =>
              \/ Val(recovered).status = ErrSha256
              \/ ReturnedOriginal /\ Val(metadata).padding > 0
        /\ Val(metadata).padding = 0 /\ TamperedUsed
              => Val(recovered).status = ErrSha256 /\ Val(recovered).hashed

\* a used parity shard was tampered with and decode raised the mismatch
C3_Witness ==
    /\ TamperDecoded
    /\ TamperedUsed
    /\ \E i \in TamperedSlots : i >= ec_system.k
    /\ Val(recovered).status = ErrSha256

\* ceil(a / b)
CeilDiv(a, b) == (a + b - 1) \div b

\* C7: the metadata of encode: block_size = ceil(L / k), padding =
\* block_size * k - L, original_length = L, 0 <= padding < k; the first k
\* shards are the blocks of the data followed by `padding` zero bytes, and
\* every shard has block_size bytes.
C7_MetadataArithmetic ==
    ~IsNone(metadata) =>
        LET md == Val(metadata)
            L  == Len(test_data)
            k  == ec_system.k
        IN  /\ md.block_size = CeilDiv(L, k)
            /\ md.padding = md.block_size * k - L
            /\ md.original_length = L
            /\ md.block_size * k = md.original_length + md.padding
            /\ md.padding >= 0 /\ md.padding < k
            /\ Len(Val(all_shards)) = ec_system.n
            /\ \A i \in 1..ec_system.n : Len(Val(all_shards)[i]) = md.block_size
            /\ Join(SubSeq(Val(all_shards), 1, k)) = test_data \o Zeros(md.padding)

\* an encode of data that needs padding, into blocks of two bytes or more
C7_Witness ==
    /\ ~IsNone(metadata)
    /\ Val(metadata).padding > 0
    /\ Val(metadata).block_size >= 2
    /\ Len(Val(all_shards)) = ec_system.n

\* test_shards with every slot outside `keep` set to None
OnlySlots(keep) ==
    [i \in 1..Len(Val(test_shards)) |->
        IF (i - 1) \in keep THEN Val(test_shards)[i] ELSE None]

\* C10: with more than k slots present decode uses exactly the k present
\* shards of lowest index: its outcome is that of decode on the list with
\* all other slots None; and with untampered shards the outcome for any
\* present set of size >= k is the original data.
C10_LowestKSelected ==
    /\ (DecodeDone /\ Cardinality(PresentSet) > ec_system.k) =>
          /\ Range(Val(recovered).used) = LowestK
          /\ Val(recovered) =
                 ECR_decode(ec_system, OnlySlots(LowestK), Val(metadata))
    /\ (DecodeDone /\ TamperedSlots = {}
            /\ Cardinality(PresentSet) >= ec_system.k) => ReturnedOriginal

\* more than k shards were presented, the lowest data shard was lost and a
\* shard beyond the k lowest was tampered with
C10_Witness ==
    /\ DecodeDone
    /\ Cardinality(PresentSet) > ec_system.k
    /\ 0 \notin PresentSet
    /\ TamperedSlots # {}
    /\ ~TamperedUsed
    /\ ReturnedOriginal

(***************************************************************************)
(* Claims about SimpleErasureCode (erasure_coding_file.py), checked under  *)
(* SpecXor.                                                                *)
(***************************************************************************)
PartDecoded == ~IsNone(reconstructed_data)

\* decode returned exactly part_data
ReturnedPart == Val(reconstructed_data) = SEC_Returned(part_data)

\* the presented indices, as a set
SelectedSet == IF IsNone(selected_indices) THEN {} ELSE Range(Val(selected_indices))

\* the data indices of [0, k) that were not presented
AbsentData == (0..(ec.k - 1)) \ SelectedSet

\* C4: decode of the first k fragments under the indices 0, ..., k-1 returns
\* exactly the encoded bytes, for every buffer (empty, ending in zero bytes)
\* and every k >= 1, m >= 0.
C4_RoundTripDataFragments ==
    (PartDecoded /\ Val(selected_indices) = [i \in 1..ec.k |-> i - 1])
        => ReturnedPart

\* a round trip of a padded buffer that ends in a zero byte
C4_Witness ==
    /\ PartDecoded
    /\ Val(selected_indices) = [i \in 1..ec.k |-> i - 1]
    /\ ec.k >= 2
    /\ Len(part_data) >= 2
    /\ part_data[Len(part_data)] = 0
    /\ part_data[1] # 0
    /\ Val(part_metadata).chunk_size * ec.k > Len(part_data)
    /\ ReturnedPart

\* C5: with m >= 1, the k-1 data fragments other than one data index i
\* together with one parity fragment, in any order, decode to exactly the
\* encoded bytes.
C5_OneMissingRebuilt ==
    (/\ PartDecoded
     /\ Len(Val(selected_indices)) = ec.k
     /\ Cardinality(AbsentData) = 1)
        => ReturnedPart

\* the parity fragment is presented first and the missing chunk is not all
\* zero
C5_Witness ==
    /\ PartDecoded
    /\ ec.k >= 2
    /\ Len(Val(selected_indices)) = ec.k
    /\ Cardinality(AbsentData) = 1
    /\ Val(selected_indices)[1] >= ec.k
    /\ \E i \in AbsentData : \E b \in 1..Len(Val(fragments)[i + 1]) :
           Val(fragments)[i + 1][b] # 0
    /\ ReturnedPart

\* C6: when two or more data indices are absent from the presented distinct
\* indices, decode raises an error and returns no bytes, however many
\* parity fragments are presented.
C6_TwoMissingFails ==
    (PartDecoded /\ Cardinality(AbsentData) >= 2) =>
        /\ Val(reconstructed_data).status \in
               {ErrTooFewFragments, ErrCannotReconstruct}
        /\ Val(reconstructed_data).data = <<>>
        /\ Len(Val(selected_indices)) >= ec.k
               => Val(reconstructed_data).status = ErrCannotReconstruct

\* k parity fragments and no data fragment were presented
C6_Witness ==
    /\ PartDecoded
    /\ Cardinality(AbsentData) >= 2
    /\ Len(Val(selected_indices)) >= ec.k
    /\ \A i \in SelectedSet : i >= ec.k
    /\ Val(reconstructed_data).status = ErrCannotReconstruct

(***************************************************************************)
(* Claims about the encode calls of both coders, checked under SpecCalls.  *)
(***************************************************************************)
\* the padding of an encode result: the metadata's padding
\* (ErasureCodingRecovery), chunk_size * k - original_length
\* (SimpleErasureCode)
PaddingOf(out) ==
    IF call_input.cls = "ECR" THEN out.metadata.padding
    ELSE out.metadata.chunk_size * call_input.k - out.metadata.original_length

BlockSizeOf(out) ==
    IF call_input.cls = "ECR" THEN out.metadata.block_size
    ELSE out.metadata.chunk_size

EncodeCalls == IF IsNone(calls) THEN {} ELSE DOMAIN calls

\* C8 as claimed: the padding of every encode call is below the block size.
C8_PaddingBelowBlockSize ==
    \A c \in EncodeCalls :
        PaddingOf(calls[c]) >= 0
        /\ PaddingOf(calls[c]) < BlockSizeOf(calls[c])

\* C8 as amended: the padding of every encode call satisfies 0 <= padding <
\* k and block_size * k = length + padding; it is below the block size
\* whenever block_size >= k.
C8_PaddingBelowK ==
    \A c \in EncodeCalls :
        LET pad == PaddingOf(calls[c])
            bs  == BlockSizeOf(calls[c])
        IN  /\ pad >= 0
            /\ pad < call_input.k
            /\ bs * call_input.k = Len(call_input.data) + pad
            /\ bs >= call_input.k => pad < bs

\* an encode call that pads a buffer of two bytes or more
C8_Witness ==
    \E c \in EncodeCalls :
        /\ PaddingOf(calls[c]) > 0
        /\ Len(call_input.data) >= 2

C11_InvalidParametersRejected ==
    (ec.k <= 0 \/ ec.m < 0 \/ ec.k + ec.m > 255) => IsNone(fragments)

\* the presented index list repeats an index or holds one outside [0, k+m)
BadIndexList ==
    LET indices == Val(selected_indices)
    IN  \/ \E i, j \in 1..Len(indices) : i # j /\ indices[i] = indices[j]
        \/ \E i \in 1..Len(indices) : indices[i] \notin 0..(ec.k + ec.m - 1)

\* C12 as claimed: decode of an index list with a repeated or out-of-range
\* index raises an error and returns no bytes.
C12_BadIndexListRejected ==
    (PartDecoded /\ BadIndexList) => Val(reconstructed_data).status # "ok"

\* C13 as claimed: whenever decode returns bytes, their SHA-256 equals the
\* hash of the metadata, also when a presented fragment was corrupted.
C13_DecodeVerifiesHash ==
    (PartDecoded /\ Val(reconstructed_data).status = "ok") =>
        sha256_hexdigest(Val(reconstructed_data).data) = Val(part_metadata).data_hash

(***************************************************************************)
(* Claims about SimpleErasureCode.encode (erasure_coding_file.py), checked *)
(* under SpecXor.                                                          *)
(***************************************************************************)
\* byte b (from 0) of the zero-padded data
PaddedByte(data, b) == IF b < Len(data) THEN data[b + 1] ELSE 0

\* C14: encode returns k + m fragments of length ceil(len(D) / k) each;
\* fragment i < k holds the bytes [i*chunk_size, (i+1)*chunk_size) of D
\* followed by zero bytes, so the first k fragments joined and cut to len(D)
\* are D; the metadata reports len(D), k + m and the hash of the unpadded D.
C14_SystematicEncode ==
    ~IsNone(fragments) =>
        LET frags == Val(fragments)
            md    == Val(part_metadata)
            cs    == CeilDiv(Len(part_data), ec.k)
        IN  /\ Len(frags) = ec.k + ec.m
            /\ \A i \in 1..Len(frags) : Len(frags[i]) = cs
            /\ \A i \in 0..(ec.k - 1) : \A b \in 0..(cs - 1) :
                   frags[i + 1][b + 1] = PaddedByte(part_data, i * cs + b)
            /\ SubSeq(Join(SubSeq(frags, 1, ec.k)), 1, Len(part_data)) = part_data
            /\ md.chunk_size = cs
            /\ md.original_length = Len(part_data)
            /\ md.num_fragments = ec.k + ec.m
            /\ md.k = ec.k
            /\ md.m = ec.m
            /\ md.data_hash = sha256_hexdigest(part_data)

\* a padded buffer of three bytes in two data fragments and a parity
C14_Witness ==
    /\ ~IsNone(fragments)
    /\ ec.k = 2
    /\ ec.m >= 1
    /\ Len(part_data) = 3
    /\ part_data[3] # 0
    /\ Val(fragments)[2] = <<part_data[3], 0>>

(***************************************************************************)
(* Claims about SimpleErasureCode of erasure_coding_simple.py, checked     *)
(* under SpecSimple.                                                       *)
(***************************************************************************)
\* C15 as claimed: with k = 4, m = 2, decode of any k of the k + m
\* fragments returns bytes R with R[:len(D)] == D.
C15_AnyKFragmentsReconstruct ==
    (PartDecoded /\ ec.k = DemoK /\ ec.m = DemoM) =>
        /\ Val(reconstructed_data).status = "ok"
        /\ Slice(Val(reconstructed_data).data, 0, Len(part_data)) = part_data

\* C16 as claimed: decode of the first k fragments under the indices
\* 0, ..., k-1 returns exactly D, for every buffer and every k >= 1.
C16_SimpleRoundTrip ==
    (PartDecoded /\ Val(selected_indices) = [i \in 1..ec.k |-> i - 1])
        => ReturnedPart

(***************************************************************************)
(* The XOR parity structure of both SimpleErasureCode encoders, checked    *)
(* under SpecXor.                                                          *)
(***************************************************************************)
\* the bytewise XOR of the fragments frags[1..cnt], each of length chunk_size
XorOfFragments(frags, cnt, chunk_size) ==
    [b \in 1..chunk_size |-> XorAll([j \in 1..cnt |-> frags[j][b]])]

\* every fragment after the first k is the XOR of the first k, and the XOR
\* of the first k with any later one is all zero
ParityStructure(frags, k, chunk_size) ==
    \A p \in (k + 1)..Len(frags) :
        /\ frags[p] = XorOfFragments(frags, k, chunk_size)
        /\ \A q \in (k + 1)..Len(frags) : frags[p] = frags[q]
        /\ [b \in 1..chunk_size |->
               BitXor(frags[p][b], XorOfFragments(frags, k, chunk_size)[b])]
               = Zeros(chunk_size)

\* what a caller sees of a decode outcome: the bytes, or that it raised
BytesOrError(outcome) ==
    [returned |-> outcome.status = "ok", data |-> outcome.data]

\* the presented list with its parity indices replaced by the single index k
WithFirstParityOnly ==
    SEC_data_indices(Val(selected_indices), ec.k) \o <<ec.k>>

C17_PipelineSucceeds ==
    /\ final # Some("ERROR during reconstruction")
    /\ ~IsNone(reconstructed_data) => Val(reconstructed_data).status = "ok"
    /\ \A i \in DOMAIN part_verified : part_verified[i]
    /\ \A i \in DOMAIN reconstructed_parts :
           reconstructed_parts[i] = Val(file_parts)[i]
    /\ ~IsNone(final) =>
           /\ final = Some("SUCCESS")
           /\ Len(reconstructed_parts) = num_parts
           /\ Join(reconstructed_parts) = original_data

\* a file of three bytes in two parts of different sizes, the last part
\* rebuilt from a data fragment and a parity fragment
C17_Witness ==
    /\ final = Some("SUCCESS")
    /\ num_parts = 2
    /\ ec.k = 2
    /\ Len(original_data) = 3
    /\ original_data[3] # 0
    /\ Val(selected_indices) = <<0, 2>>
    /\ reconstructed_parts = <<SubSeq(original_data, 1, 2), <<original_data[3]>>>>

\* the number of entries of q before position j that are data indices
DataBefore(q, j, k) == Cardinality({i \in 1..(j - 1) : q[i] < k})

\* C19: when the first selection loop ends, selected_indices holds exactly k
\* distinct indices of [0, k+m), at least k-1 of them data indices and at
\* most one a parity index, and a parity index was appended only after k-1
\* data indices; the second loop adds nothing, and the sorted selection is
\* decoded without an error.
C19_SelectionLoop ==
    ~IsNone(loop_selected) =>
        LET q == Val(loop_selected)
            k == ec.k
        IN  /\ Len(q) = k
            /\ \A i, j \in 1..Len(q) : i # j => q[i] # q[j]
            /\ Range(q) \subseteq 0..(k + ec.m - 1)
            /\ Cardinality({i \in 1..Len(q) : q[i] < k}) >= k - 1
            /\ Cardinality({i \in 1..Len(q) : q[i] >= k}) <= 1
            /\ \A j \in 1..Len(q) : q[j] >= k => DataBefore(q, j, k) >= k - 1
            /\ Select_fill(q, k) = q
            /\ Val(selected_indices) = Sorted(q)
            /\ ~IsNone(reconstructed_data) => Val(reconstructed_data).status = "ok"

\* the shuffle puts a parity index first: it is passed over, and the next
\* parity index is taken after the first data index
C19_Witness ==
    /\ ec.k = 2
    /\ all_indices = Some(<<2, 0, 3, 1>>)
    /\ loop_selected = Some(<<0, 3>>)
    /\ selected_indices = Some(<<0, 3>>)

(***************************************************************************)
(* Claims about the scenario loop of demonstrate_3_of_7, checked under     *)
(* SpecScenarios.                                                          *)
(***************************************************************************)
\* the outcome of a scenario as its lost indices alone determine it: the
\* data when at least k shards are left, the insufficient-shards error
\* otherwise
ScenarioOutcome(lost_indices) ==
    IF ec_system.n - Cardinality(lost_indices) >= ec_system.k
    THEN [status |-> "ok", data |-> test_data]
    ELSE [status |-> ErrInsufficient, data |-> <<>>]

StatusAndData(outcome) == [status |-> outcome.status, data |-> outcome.data]

\* the outcomes of the scenario under test and of the one before it are the
\* ones their own lost indices determine
ScenariosIndependent ==
    /\ DecodeDone =>
           StatusAndData(Val(recovered)) = ScenarioOutcome(Val(scenario_log.current))
    /\ ~IsNone(scenario_log.previous) =>
           StatusAndData(Val(scenario_log.previous).outcome)
               = ScenarioOutcome(Val(scenario_log.previous).lost_indices)

\* a decode call leaves the list it was given, every shard in it, the
\* metadata and the coder as they were, and returns what a newly constructed
\* coder returns for the same arguments
DecodeLeavesArguments ==
    (IsNone(recovered) /\ ~IsNone(recovered')) =>
        /\ test_shards' = test_shards
        /\ metadata' = metadata
        /\ ec_system' = ec_system
        /\ recovered' = Some(ECR_decode(
               ECR_init(ec_system.k, ec_system.n, ec_system.chunk_size),
               Val(test_shards), Val(metadata)))

\* once encoded, all_shards, the metadata and the coder never change
ShardsNeverChange ==
    ~IsNone(all_shards) =>
        /\ all_shards' = all_shards
        /\ metadata' = metadata
        /\ ec_system' = ec_system

=============================================================================
